---- MODULE Spec2Model ----
(***************************************************************************)
(* A model of clay.py, the generator of the clay test driver.               *)
(*                                                                          *)
(* main() builds one ClayTestBuilder per folder given on the command line  *)
(* and renders it.  The constructor walks the folder with os.walk, reads   *)
(* every *.c file and hands it to _process_test_file, which fills the      *)
(* builder's four lists.  render() loads the support library, writes       *)
(* clay_main.c and then copies clay.h.                                      *)
(*                                                                          *)
(* Strings whose characters matter (file names, group names, symbols) are  *)
(* sequences of one-character strings, so that joining, slicing and        *)
(* replacing are computed as Python computes them.                          *)
(***************************************************************************)
EXTENDS Integers, Sequences, FiniteSets, TLC

VARIABLES
    pc,            \* position of main(): "main", "walk", "render", "write_main",
                   \* "write_header", "done", "error"
    error,         \* the uncaught exception that ended the process, or "none"
    args,          \* the folders of the command line not built yet
    folder,        \* the folder of the current builder: [dir, tree]
    clay_path,     \* options.clay_path: a directory, or "None"
    output,        \* options.output: a directory, or "None"
    print_mode,    \* options.print_mode
    todo,          \* the (module_root, test_file) pairs the walk has not visited yet
    sources,       \* the files the current builder has read: [path, contents]
    declarations,  \* self.declarations
    callbacks,     \* self.callbacks
    suites,        \* self.suites
    suite_list,    \* self.suite_list
    template,      \* the text render() substituted, before it is written
    disk,          \* the support and output files of every directory
    disk0          \* the disk as it was when the process started

vars == <<pc, error, args, folder, clay_path, output, print_mode, todo, sources,
          declarations, callbacks, suites, suite_list, template, disk, disk0>>

builder == <<declarations, callbacks, suites, suite_list>>
options == <<clay_path, output, print_mode>>

(***************************************************************************)
(* Bounds of the model.                                                     *)
(***************************************************************************)
\* the declarations of all files of one scanned tree together
MaxDecls == 4
\* the declarations of one file in a complete run of main()
MaxRunDecls == 1
\* the folders on one command line
MaxFolders == 2

(***************************************************************************)
(* Strings.                                                                 *)
(***************************************************************************)
s_initialize == <<"i", "n", "i", "t", "i", "a", "l", "i", "z", "e">>
s_cleanup == <<"c", "l", "e", "a", "n", "u", "p">>
s_test == <<"t", "e", "s", "t", "_">>
s_x == <<"x">>
s_y == <<"y">>
s_a == <<"a">>
s_c == <<"c">>
s_a_b == <<"a", "_", "b">>
f_b_c == <<"b", ".", "c">>
f_b_h == <<"b", ".", "h">>
f_c_c == <<"c", ".", "c">>
f_c_h == <<"c", ".", "h">>
f_a_b_c == <<"a", "_", "b", ".", "c">>

RECURSIVE Join(_, _)
\* sep.join(parts)
Join(sep, parts) ==
    IF parts = <<>> THEN <<>>
    ELSE IF Len(parts) = 1 THEN parts[1]
    ELSE parts[1] \o sep \o Join(sep, Tail(parts))

RECURSIVE Replace(_, _, _)
\* s.replace(old, new) for a one-character old
Replace(s, old, new) ==
    IF s = <<>> THEN <<>>
    ELSE (IF Head(s) = old THEN new ELSE <<Head(s)>>) \o Replace(Tail(s), old, new)

RECURSIVE Concat(_)
Concat(ss) == IF ss = <<>> THEN <<>> ELSE Head(ss) \o Concat(Tail(ss))

RECURSIVE Sum(_)
Sum(ns) == IF ns = <<>> THEN 0 ELSE Head(ns) + Sum(Tail(ns))

SeqsUpTo(S, n) == UNION {[1..k -> S] : k \in 0..n}

(***************************************************************************)
(* The scanned tree: os.walk and fnmatch.                                   *)
(* A directory is [files, dirs]: its file names and its subdirectories     *)
(* ([name, dir]) in the order os.listdir returns them.                      *)
(***************************************************************************)
RECURSIVE os_walk_bottom_up(_, _)
\* os.walk(top, topdown=False): a directory comes after its subdirectories
os_walk_bottom_up(dir, root) ==
    Concat([i \in 1..Len(dir.dirs) |->
              os_walk_bottom_up(dir.dirs[i].dir, Append(root, dir.dirs[i].name))])
    \o <<[root |-> root, files |-> dir.files]>>

RECURSIVE os_walk(_, _)
\* os.walk(folder_name): top-down, a directory comes before its subdirectories;
\* root is kept as the list of path components below folder_name (module_root)
os_walk(dir, root) ==
    <<[root |-> root, files |-> dir.files]>>
    \o Concat([i \in 1..Len(dir.dirs) |->
                 os_walk(dir.dirs[i].dir, Append(root, dir.dirs[i].name))])

\* fnmatch.fnmatch(name, "*.c")
fnmatch_c(name) ==
    /\ Len(name) >= 2
    /\ SubSeq(name, Len(name) - 1, Len(name)) = <<".", "c">>

\* the loop of __init__: every (module_root, test_file) in the order visited
tests_in_walk(tree) ==
    LET walk == os_walk(tree, <<>>)
    IN Concat([i \in 1..Len(walk) |->
         LET tests_in_module == SelectSeq(walk[i].files, fnmatch_c)
         IN [j \in 1..Len(tests_in_module) |->
               [module_root |-> walk[i].root, test_file |-> tests_in_module[j]]]])

\* "_".join(module_root + [test_file[:-2]])
test_name_of(module_root, test_file) ==
    Join(<<"_">>, Append(module_root, SubSeq(test_file, 1, Len(test_file) - 2)))

(***************************************************************************)
(* The matcher.  The text of a file is the sequence of the symbols of the  *)
(* line-anchored "void <symbol>(void) {" definitions in it.                 *)
(***************************************************************************)
\* TEST_FUNC_REGEX % test_name, as the prefix a symbol must start with
regex_prefix(test_name) == s_test \o test_name \o <<"_", "_">>

\* one tuple of regex.findall: the symbol test_<name>__<short>, \w+ not empty
IsMatch(test_name, symbol) ==
    LET p == regex_prefix(test_name)
    IN /\ Len(symbol) > Len(p)
       /\ SubSeq(symbol, 1, Len(p)) = p

findall(test_name, contents) ==
    LET found == SelectSeq(contents, LAMBDA symbol : IsMatch(test_name, symbol))
    IN [i \in 1..Len(found) |->
          [declaration |-> found[i],
           symbol |-> found[i],
           short_name |-> SubSeq(found[i], Len(regex_prefix(test_name)) + 1,
                                 Len(found[i]))]]

(***************************************************************************)
(* _process_test_file.                                                      *)
(***************************************************************************)
\* "{NULL, NULL, 0}"
NULL_FUNC == [short_name |-> <<>>, symbol |-> <<>>, index |-> 0]

\* the entry numbered from one instead of from zero
func_ptr_one_based(match, self_suites) ==
    [short_name |-> match.short_name, symbol |-> match.symbol,
     index |-> Len(self_suites) + 1]

\* '{"%s", &%s, %d}' % (short_name, symbol, len(self.suites))
func_ptr(match, self_suites) ==
    [short_name |-> match.short_name, symbol |-> match.symbol,
     index |-> Len(self_suites)]

RECURSIVE scan_no_else(_, _, _)
\* the loop without its else: a hook is registered as a callback too
scan_no_else(matches, self_suites, acc) ==
    IF matches = <<>> THEN acc
    ELSE LET p == func_ptr(Head(matches), self_suites)
             short_name == Head(matches).short_name
             hooked == IF short_name = s_initialize THEN [acc EXCEPT !.initialize = p]
                       ELSE IF short_name = s_cleanup THEN [acc EXCEPT !.cleanup = p]
                       ELSE acc
         IN scan_no_else(Tail(matches), self_suites,
                         [hooked EXCEPT !.callbacks = Append(@, p)])

RECURSIVE scan_swapped(_, _, _)
\* the loop with the two hook assignments exchanged
scan_swapped(matches, self_suites, acc) ==
    IF matches = <<>> THEN acc
    ELSE LET p == func_ptr(Head(matches), self_suites)
             short_name == Head(matches).short_name
         IN scan_swapped(Tail(matches), self_suites,
                 IF short_name = s_initialize THEN [acc EXCEPT !.cleanup = p]
                 ELSE IF short_name = s_cleanup THEN [acc EXCEPT !.initialize = p]
                 ELSE [acc EXCEPT !.callbacks = Append(@, p)])

RECURSIVE scan(_, _, _)
\* the for loop over the matches: acc is [callbacks, initialize, cleanup]
scan(matches, self_suites, acc) ==
    IF matches = <<>> THEN acc
    ELSE LET p == func_ptr(Head(matches), self_suites)
             short_name == Head(matches).short_name
         IN scan(Tail(matches), self_suites,
                 IF short_name = s_initialize THEN [acc EXCEPT !.initialize = p]
                 ELSE IF short_name = s_cleanup THEN [acc EXCEPT !.cleanup = p]
                 ELSE [acc EXCEPT !.callbacks = Append(@, p)])

\* the locals before the loop
scan_start == [callbacks |-> <<>>, initialize |-> NULL_FUNC, cleanup |-> NULL_FUNC]

\* test_name.replace("_", "::")
clean_name_of(test_name) == Replace(test_name, "_", <<":", ":">>)

\* the suite with its offset taken after self.callbacks was extended
new_suite_late(test_name, found, self_callbacks) ==
    [clean_name |-> clean_name_of(test_name),
     initialize |-> found.initialize,
     cleanup |-> found.cleanup,
     cb_ptr |-> Len(self_callbacks) + Len(found.callbacks),
     cb_count |-> Len(found.callbacks)]

\* TEMPLATE_SUITE.substitute(...)
new_suite(test_name, found, self_callbacks) ==
    [clean_name |-> clean_name_of(test_name),
     initialize |-> found.initialize,
     cleanup |-> found.cleanup,
     cb_ptr |-> Len(self_callbacks),
     cb_count |-> Len(found.callbacks)]

\* the early return taken only when nothing matched at all
no_matches(found, matches) == matches = <<>>

\* "if not callbacks: return"
no_callbacks(found, matches) == found.callbacks = <<>>

\* the builder [declarations, callbacks, suites, suite_list] after the call
process_test_file(self, test_name, contents) ==
    LET matches == findall(test_name, contents)
        found == scan(matches, self.suites, scan_start)
        decls == self.declarations
                 \o [i \in 1..Len(matches) |-> <<"extern">> \o matches[i].declaration]
    IN IF no_callbacks(found, matches)
       THEN [self EXCEPT !.declarations = decls]
       ELSE [declarations |-> decls,
             callbacks |-> self.callbacks \o found.callbacks,
             suites |-> Append(self.suites,
                               new_suite(test_name, found, self.callbacks)),
             suite_list |-> Append(self.suite_list, clean_name_of(test_name))]

(***************************************************************************)
(* The support library: _load_file, _get_library, _get_print_method.       *)
(* A text is a sequence of strings; a file is [exists, data].               *)
(***************************************************************************)
NoFile == [exists |-> FALSE, data |-> <<>>]
File(data) == [exists |-> TRUE, data |-> data]

FileNames == {"clay.c", "clay_sandbox.c", "clay.h", "clay_main.c"}
Dirs == {"tests", "more", "nested", "lib", "out"}

\* CLAY_FILES[filename], decoded
CLAY_FILES(filename) == <<"bundled", filename>>

\* self.modules
modules == <<"clay.c", "clay_sandbox.c">>

\* open(filename) raises IOError
unreadable(d, path, filename) ==
    /\ path # "None"
    /\ ~d[path][filename].exists

\* self._load_file(filename), when it does not raise
load_file(d, path, filename) ==
    IF path # "None" THEN d[path][filename].data ELSE CLAY_FILES(filename)

\* the keys of the dictionary of _get_print_method
PrintMethods == {"stdout", "stderr", "silent"}

\* os.path.join(output_folder, ...), output_folder defaulting to folder_name
output_folder(out, dir) == IF out = "None" THEN dir ELSE out

(***************************************************************************)
(* The inputs.                                                              *)
(***************************************************************************)
Leaf(files) == [files |-> files, dirs |-> <<>>]
Sub(name, files) == [name |-> name, dir |-> Leaf(files)]

\* c.c in the root and b.c in directory a
TreeB == [files |-> <<f_c_c>>, dirs |-> <<Sub(s_a, <<f_b_c>>)>>]
\* a_b.c next to directory a, which holds b.c
TreeAB == [files |-> <<f_a_b_c, f_c_h>>, dirs |-> <<Sub(s_a, <<f_b_c>>)>>]
\* three sources and a header
TreeAll == [files |-> <<f_a_b_c, f_c_c>>, dirs |-> <<Sub(s_a, <<f_b_h, f_b_c>>)>>]
TreeOne == Leaf(<<f_c_c>>)
TreeNoSource == Leaf(<<f_c_h>>)

Trees == {TreeB, TreeAB, TreeAll, TreeOne, TreeNoSource}

Symbol(group, short_name) == s_test \o group \o <<"_", "_">> \o short_name

\* the definitions a scanned file can hold: tests and hooks of group a_b (the
\* name of both a/b.c and a_b.c) and of group c
Symbols == {Symbol(s_a_b, s) : s \in {s_x, s_y, s_initialize, s_cleanup}}
           \cup {Symbol(s_c, s) : s \in {s_x, s_initialize}}

RunSymbols == {Symbol(s_c, s_x), Symbol(s_c, s_initialize), Symbol(s_a_b, s_x)}

RunFolders == {[dir |-> "tests", tree |-> TreeOne],
               [dir |-> "more", tree |-> TreeNoSource],
               [dir |-> "nested", tree |-> TreeB]}

TotalDecls(srcs) == Sum([i \in 1..Len(srcs) |-> Len(srcs[i].contents)])

\* the texts a file of the scanned tree can hold
Contents == SeqsUpTo(Symbols, MaxDecls - TotalDecls(sources))
RunContents == SeqsUpTo(RunSymbols, MaxRunDecls)

EmptyDisk == [d \in Dirs |-> [f \in FileNames |-> NoFile]]

\* a disk with the support files of `present` in directory `path`, and, when
\* stale, the output of an earlier run in directory out
DiskWith(path, present, stale) ==
    [d \in Dirs |-> [f \in FileNames |->
        IF d = path /\ f \in present THEN File(<<"external", f>>)
        ELSE IF stale /\ d = "out" /\ f \in {"clay_main.c", "clay.h"}
             THEN File(<<"stale", f>>)
        ELSE NoFile]]

(***************************************************************************)
(* The state machine.                                                       *)
(***************************************************************************)
self == [declarations |-> declarations, callbacks |-> callbacks,
         suites |-> suites, suite_list |-> suite_list]

InitBuilder ==
    /\ pc = "main"
    /\ error = "none"
    /\ folder = [dir |-> "None", tree |-> Leaf(<<>>)]
    /\ todo = <<>>
    /\ sources = <<>>
    /\ declarations = <<>>
    /\ callbacks = <<>>
    /\ suites = <<>>
    /\ suite_list = <<>>
    /\ template = <<>>

\* a process started on one to MaxFolders different folders, with any options;
\* the support directory and the output directory are no scanned folders
Init ==
    /\ InitBuilder
    /\ args \in {a \in UNION {[1..n -> RunFolders] : n \in 1..MaxFolders} :
                   \A i, j \in 1..Len(a) : i # j => a[i] # a[j]}
    /\ clay_path \in {"None", "lib"}
    /\ output \in {"None", "lib", "out"}
    /\ print_mode \in {"stdout", "syslog"}
    /\ \E present \in SUBSET {"clay.c", "clay_sandbox.c", "clay.h"},
          stale \in BOOLEAN :
          /\ clay_path = "None" => present = {}
          /\ disk = DiskWith(clay_path, present, stale)
    /\ disk0 = disk

\* the constructor alone, on any tree of Trees
InitBuild ==
    /\ InitBuilder
    /\ args \in {<<[dir |-> "tests", tree |-> t]>> : t \in Trees}
    /\ clay_path = "None"
    /\ output = "None"
    /\ print_mode = "stdout"
    /\ disk = EmptyDisk
    /\ disk0 = disk

\* main: "for folder in args: builder = ClayTestBuilder(folder, ...)", up to the walk
StartBuilder ==
    /\ pc = "main"
    /\ args # <<>>
    /\ folder' = Head(args)
    /\ args' = Tail(args)
    /\ declarations' = <<>>
    /\ callbacks' = <<>>
    /\ suites' = <<>>
    /\ suite_list' = <<>>
    /\ sources' = <<>>
    /\ todo' = tests_in_walk(Head(args).tree)
    /\ pc' = "walk"
    /\ UNCHANGED <<error, options, template, disk, disk0>>

\* one turn of "for test_file in tests_in_module": read the file, process it
ProcessTestFile(texts) ==
    /\ pc = "walk"
    /\ todo # <<>>
    /\ \E contents \in texts :
         LET t == Head(todo)
             after == process_test_file(
                          self, test_name_of(t.module_root, t.test_file), contents)
         IN /\ declarations' = after.declarations
            /\ callbacks' = after.callbacks
            /\ suites' = after.suites
            /\ suite_list' = after.suite_list
            /\ sources' = Append(sources,
                   [path |-> Append(t.module_root, t.test_file),
                    contents |-> contents])
    /\ todo' = Tail(todo)
    /\ UNCHANGED <<pc, error, args, folder, options, template, disk, disk0>>

ScanFile == ProcessTestFile(Contents)
ReadFile == ProcessTestFile(RunContents)

\* the test made on self.declarations instead of self.suites
no_declarations_found(b) == b.declarations = <<>>

\* "if not self.suites"
no_tests_found(b) == b.suites = <<>>

\* the end of __init__: raise RuntimeError('No tests found ...') or return
FinishWalk ==
    /\ pc = "walk"
    /\ todo = <<>>
    /\ IF no_tests_found(self)
       THEN pc' = "error" /\ error' = "No tests found"
       ELSE pc' = "render" /\ error' = error
    /\ UNCHANGED <<args, folder, options, todo, sources, builder, template,
                   disk, disk0>>

\* render(): TEMPLATE_MAIN.substitute(...)
RenderTemplate ==
    /\ pc = "render"
    /\ IF print_mode \notin PrintMethods
       THEN pc' = "error" /\ error' = "KeyError" /\ template' = template
       ELSE IF \E i \in 1..Len(modules) : unreadable(disk, clay_path, modules[i])
       THEN pc' = "error" /\ error' = "IOError" /\ template' = template
       ELSE /\ pc' = "write_main"
            /\ error' = error
            /\ template' =
                 [clay_print |-> print_mode,
                  clay_library |-> Concat([i \in 1..Len(modules) |->
                                      load_file(disk, clay_path, modules[i])]),
                  extern_declarations |-> declarations,
                  suites_str |-> Join(<<",", " ">>, suite_list),
                  test_callbacks |-> callbacks,
                  cb_count |-> Len(callbacks),
                  test_suites |-> suites,
                  suite_count |-> Len(suites)]
    /\ UNCHANGED <<args, folder, options, todo, sources, builder, disk, disk0>>

\* render(): with open(self.output, "w") as out: out.write(template)
WriteMain ==
    /\ pc = "write_main"
    /\ disk' = [disk EXCEPT ![output_folder(output, folder.dir)]["clay_main.c"] =
                   File(<<"TEMPLATE_MAIN", template.clay_print>>
                        \o template.clay_library)]
    /\ pc' = "write_header"
    /\ UNCHANGED <<error, args, folder, options, todo, sources, builder,
                   template, disk0>>

\* the disk after open(self.output_header, "w"): the file exists and is empty
open_w(d, dir) == [d EXCEPT ![dir]["clay.h"] = File(<<>>)]

\* render(): with open(self.output_header, "w") as out:
\*               out.write(self._load_file('clay.h'))
\* and the return to the loop of main
WriteHeader ==
    /\ pc = "write_header"
    /\ LET dir == output_folder(output, folder.dir)
           opened == open_w(disk, dir)
       IN IF unreadable(opened, clay_path, "clay.h")
          THEN /\ disk' = opened
               /\ pc' = "error"
               /\ error' = "IOError"
          ELSE /\ disk' = [opened EXCEPT ![dir]["clay.h"] =
                              File(load_file(opened, clay_path, "clay.h"))]
               /\ pc' = IF args = <<>> THEN "done" ELSE "main"
               /\ error' = error
    /\ UNCHANGED <<args, folder, options, todo, sources, builder, template, disk0>>

Next ==
    \/ StartBuilder
    \/ ReadFile
    \/ FinishWalk
    \/ RenderTemplate
    \/ WriteMain
    \/ WriteHeader

Spec == Init /\ [][Next]_vars

NextBuild ==
    \/ StartBuilder
    \/ ScanFile
    \/ FinishWalk

SpecBuild == InitBuild /\ [][NextBuild]_vars

(***************************************************************************)
(* The properties: the matches of a file that was read.                   *)
(***************************************************************************)
HookNames == {s_initialize, s_cleanup}

NameOf(src) ==
    test_name_of(SubSeq(src.path, 1, Len(src.path) - 1), src.path[Len(src.path)])

MatchesOf(src) == findall(NameOf(src), src.contents)

OrdinaryOf(src) ==
    SelectSeq(MatchesOf(src), LAMBDA m : m.short_name \notin HookNames)

NamedOf(src, short_name) ==
    SelectSeq(MatchesOf(src), LAMBDA m : m.short_name = short_name)

HooksOnly(src) == MatchesOf(src) # <<>> /\ OrdinaryOf(src) = <<>>

\* the files read so far that hold at least one ordinary test, in the order read
Producing == SelectSeq(sources, LAMBDA src : OrdinaryOf(src) # <<>>)

Window(i) ==
    SubSeq(callbacks, suites[i].cb_ptr + 1, suites[i].cb_ptr + suites[i].cb_count)

Ref(p) == [short_name |-> p.short_name, symbol |-> p.symbol]

CountsBefore(i) == Sum([j \in 1..(i - 1) |-> suites[j].cb_count])

\* C1: the (offset, count) windows of the suites partition the callback list:
\* every suite starts where the counts of the suites before it end (the first
\* at 0), and the counts add up to the length of the list.
C1_WindowsPartition ==
    /\ \A i \in 1..Len(suites) : suites[i].cb_ptr = CountsBefore(i)
    /\ CountsBefore(Len(suites) + 1) = Len(callbacks)

\* three files read, one of them holding hooks only, two suites, the first of
\* two callbacks
C1_Witness ==
    /\ todo = <<>>
    /\ Len(sources) = 3
    /\ \E i \in 1..3 : HooksOnly(sources[i])
    /\ Len(suites) = 2
    /\ suites[1].cb_count = 2
    /\ suites[2].cb_ptr = 2

\* C2: reading a file appends exactly one suite when the file has an ordinary
\* test, and no suite, callback or selector name otherwise; the suites are as
\* many as the files read that had an ordinary test.
C2_OneSuitePerTestFile ==
    /\ [](Len(suites) = Len(Producing))
    /\ [][Len(sources') = Len(sources) + 1 =>
            IF OrdinaryOf(sources'[Len(sources')]) # <<>>
            THEN /\ Len(suites') = Len(suites) + 1
                 /\ Len(suite_list') = Len(suite_list) + 1
            ELSE /\ suites' = suites
                 /\ callbacks' = callbacks
                 /\ suite_list' = suite_list]_vars

\* a file of hooks only was read after a file with a test, and left one suite
C2_Witness ==
    /\ Len(sources) = 2
    /\ OrdinaryOf(sources[1]) # <<>>
    /\ HooksOnly(sources[2])
    /\ Len(suites) = 1
    /\ Len(suite_list) = 1

\* C3: the callbacks in a suite's window are the ordinary matches of the
\* suite's own file, in match order; no hook is in the callback list or in a
\* count.
C3_WindowIsOwnTests ==
    /\ \A p \in 1..Len(callbacks) : callbacks[p].short_name \notin HookNames
    /\ \A i \in 1..Len(suites) :
         /\ i <= Len(Producing)
         /\ suites[i].cb_count = Len(OrdinaryOf(Producing[i]))
         /\ suites[i].cb_ptr + suites[i].cb_count <= Len(callbacks)
         /\ [k \in 1..suites[i].cb_count |-> Ref(Window(i)[k])]
              = [k \in 1..Len(OrdinaryOf(Producing[i])) |->
                   Ref(OrdinaryOf(Producing[i])[k])]

\* two suites, the first from a file with a hook between two different tests
C3_Witness ==
    /\ Len(suites) = 2
    /\ Len(Producing) = 2
    /\ Len(MatchesOf(Producing[1])) = 3
    /\ MatchesOf(Producing[1])[2].short_name \in HookNames
    /\ suites[1].cb_count = 2
    /\ callbacks[1] # callbacks[2]

\* C4: the suite index of every callback names an existing suite whose window
\* holds the callback's position.
C4_CallbackOwner ==
    \A p \in 1..Len(callbacks) :
       LET i == callbacks[p].index + 1
       IN /\ i \in 1..Len(suites)
          /\ suites[i].cb_ptr <= p - 1
          /\ p - 1 < suites[i].cb_ptr + suites[i].cb_count

\* a file without a suite was read between two files with one
C4_Witness ==
    /\ Len(sources) = 3
    /\ OrdinaryOf(sources[1]) # <<>>
    /\ HooksOnly(sources[2])
    /\ OrdinaryOf(sources[3]) # <<>>
    /\ Len(callbacks) >= 2
    /\ callbacks[Len(callbacks)].index = 1

SourceAt(path) == SelectSeq(sources, LAMBDA src : src.path = path)

\* a/b.c holds two ordinary tests, c.c one ordinary test and an initialize hook
ScenarioB ==
    /\ pc = "render"
    /\ folder.tree = TreeB
    /\ Len(OrdinaryOf(SourceAt(<<s_a, f_b_c>>)[1])) = 2
    /\ Len(OrdinaryOf(SourceAt(<<f_c_c>>)[1])) = 1
    /\ NamedOf(SourceAt(<<f_c_c>>)[1], s_initialize) # <<>>

\* C7, as the spec states it: the suite of a/b.c comes first (offset 0, count 2)
\* and the suite of c.c second (offset 2, count 1, initialize set).
C7_AsStated ==
    ScenarioB =>
       /\ Len(suites) = 2
       /\ suites[1].clean_name = clean_name_of(s_a_b)
       /\ suites[1].cb_ptr = 0
       /\ suites[1].cb_count = 2
       /\ suites[2].clean_name = clean_name_of(s_c)
       /\ suites[2].cb_ptr = 2
       /\ suites[2].cb_count = 1
       /\ suites[2].initialize # NULL_FUNC

\* C7, amended: os.walk visits the root before directory a, so the suite of
\* c.c comes first (offset 0, count 1, initialize set) and the suite of a/b.c
\* second, its offset the first suite's count (1), its count 2.
C7_ScenarioB ==
    ScenarioB =>
       /\ Len(suites) = 2
       /\ suites[1].clean_name = clean_name_of(s_c)
       /\ suites[1].cb_ptr = 0
       /\ suites[1].cb_count = 1
       /\ suites[1].initialize # NULL_FUNC
       /\ suites[2].clean_name = clean_name_of(s_a_b)
       /\ suites[2].cb_ptr = suites[1].cb_count
       /\ suites[2].cb_count = 2

C7_Witness == ScenarioB /\ Len(suites) = 2

\* the hook field a file's matches determine: the last match of that name
HookOf(src, short_name) ==
    LET named == NamedOf(src, short_name)
    IN IF named = <<>> THEN <<>> ELSE <<Ref(named[Len(named)])>>

HookIs(p, src, short_name) ==
    IF HookOf(src, short_name) = <<>> THEN p = NULL_FUNC
    ELSE p # NULL_FUNC /\ Ref(p) = HookOf(src, short_name)[1]

\* C8: the initialize (cleanup) field of a suite references the last match of
\* the suite's own file named initialize (cleanup), and is {NULL, NULL, 0}
\* when that file has none, whatever the files read before held.
C8_HooksFromOwnFile ==
    \A i \in 1..Len(suites) :
       /\ i <= Len(Producing)
       /\ HookIs(suites[i].initialize, Producing[i], s_initialize)
       /\ HookIs(suites[i].cleanup, Producing[i], s_cleanup)

\* a file holding only an initialize hook was read first; the suite of the
\* next file has a cleanup hook and no initialize hook
C8_Witness ==
    /\ Len(sources) = 2
    /\ HooksOnly(sources[1])
    /\ NamedOf(sources[1], s_initialize) # <<>>
    /\ Len(suites) = 1
    /\ suites[1].initialize = NULL_FUNC
    /\ suites[1].cleanup # NULL_FUNC

\* C10: two different files get different group names, and no display name is
\* twice in the suite table or the selector list.
C10_DistinctGroupNames ==
    /\ \A i, j \in 1..Len(sources) :
          sources[i].path # sources[j].path => NameOf(sources[i]) # NameOf(sources[j])
    /\ \A i, j \in 1..Len(suites) :
          i # j => suites[i].clean_name # suites[j].clean_name
    /\ \A i, j \in 1..Len(suite_list) : i # j => suite_list[i] # suite_list[j]

\* C5: a walk that ends with no suite raises 'No tests found', the process
\* ends there, and no step of the walk creates or writes a file.
C5_NoTestsFound ==
    [][/\ pc \in {"main", "walk"} => disk' = disk
       /\ (pc = "walk" /\ todo = <<>> /\ suites = <<>>) =>
             (pc' = "error" /\ error' = "No tests found")
       /\ pc # "error"]_vars

\* the process ended with 'No tests found' after reading a file of hooks only
C5_Witness ==
    /\ pc = "error"
    /\ error = "No tests found"
    /\ Len(sources) = 1
    /\ HooksOnly(sources[1])
    /\ disk[output_folder(output, folder.dir)]["clay_main.c"]
         = disk0[output_folder(output, folder.dir)]["clay_main.c"]

\* C6: when a support file cannot be read, the process fails with the disk as
\* it was when it started: no output file created, truncated or written.
C6_FailBeforeOutput ==
    (pc = "error" /\ error = "IOError") => disk = disk0

\* C9: after a render that completed with an external support directory, the
\* clay.h of the output directory is the external clay.h of the start.
C9_HeaderPassedThrough ==
    (/\ pc \in {"main", "done"}
     /\ folder.dir # "None"
     /\ clay_path # "None"
     /\ disk0[clay_path]["clay.h"].exists) =>
       disk[output_folder(output, folder.dir)]["clay.h"] = disk0[clay_path]["clay.h"]

====
